---- MODULE Spec2Model ----
(***************************************************************************)
(* A model of draftjs-to-markdown (src/js/index.js): the conversion of a   *)
(* draft-js raw content state into a markdown string.                      *)
(*                                                                         *)
(* JavaScript strings are sequences of one-character strings, so that      *)
(* escaping, markup and the space replacement are computed character by    *)
(* character.  A JavaScript value that may be a string, undefined, true or *)
(* a thrown TypeError is a record [kind, val].                             *)
(***************************************************************************)
EXTENDS Integers, Sequences, FiniteSets

VARIABLES editorContent, pc, index, markdown, result

vars == <<editorContent, pc, index, markdown, result>>

-----------------------------------------------------------------------------
(* JavaScript values *)

Str(s) == [kind |-> "str", val |-> s]

Undefined == [kind |-> "undef", val |-> <<>>]

True == [kind |-> "true", val |-> <<>>]

Throw == [kind |-> "throw", val |-> <<>>]

\* a value used in a condition: '' and undefined are falsy
Truthy(v) == v.kind = "true" \/ (v.kind = "str" /\ v.val # <<>>)

\* a value inside a template literal
Interpolate(v) ==
  IF v.kind = "str" THEN v.val
  ELSE IF v.kind = "true" THEN <<"t", "r", "u", "e">>
  ELSE <<"u", "n", "d", "e", "f", "i", "n", "e", "d">>

\* an element of an array under Array.prototype.join: undefined joins as ''
JoinItem(v) == IF v.kind = "str" THEN v.val ELSE <<>>

\* String.prototype.startsWith
StartsWith(s, p) == Len(s) >= Len(p) /\ SubSeq(s, 1, Len(p)) = p

\* String.prototype.substring(n)
Substring(s, n) == SubSeq(s, n + 1, Len(s))

\* an object with string keys, in insertion order: a sequence of [key, value]
HasKey(obj, k) == \E j \in 1..Len(obj) : obj[j].key = k

Get(obj, k) ==
  IF HasKey(obj, k)
    THEN obj[CHOOSE j \in 1..Len(obj) : obj[j].key = k].value
    ELSE Undefined

-----------------------------------------------------------------------------
(* the style names and the literal strings of the source *)

BOLD == <<"B", "O", "L", "D">>
ITALIC == <<"I", "T", "A", "L", "I", "C">>
UNDERLINE == <<"U", "N", "D", "E", "R", "L", "I", "N", "E">>
STRIKETHROUGH == <<"S", "T", "R", "I", "K", "E", "T", "H", "R", "O", "U", "G", "H">>
CODE == <<"C", "O", "D", "E">>
SUPERSCRIPT == <<"S", "U", "P", "E", "R", "S", "C", "R", "I", "P", "T">>
SUBSCRIPT == <<"S", "U", "B", "S", "C", "R", "I", "P", "T">>
COLOR == <<"C", "O", "L", "O", "R">>
BGCOLOR == <<"B", "G", "C", "O", "L", "O", "R">>
FONTSIZE == <<"F", "O", "N", "T", "S", "I", "Z", "E">>
FONTFAMILY == <<"F", "O", "N", "T", "F", "A", "M", "I", "L", "Y">>
LENGTH == <<"l", "e", "n", "g", "t", "h">>

ColorPrefix == <<"c", "o", "l", "o", "r", "-">>
BgcolorPrefix == <<"b", "g", "c", "o", "l", "o", "r", "-">>
FontsizePrefix == <<"f", "o", "n", "t", "s", "i", "z", "e", "-">>
FontfamilyPrefix == <<"f", "o", "n", "t", "f", "a", "m", "i", "l", "y", "-">>

\* the arrays of the object built by getStyleArrayForBlock
StyleKeys ==
  {COLOR, BGCOLOR, FONTSIZE, FONTFAMILY, SUBSCRIPT, SUPERSCRIPT, CODE,
   STRIKETHROUGH, UNDERLINE, ITALIC, BOLD}

\* the two key lists getEntitySectionMarkdown passes to getStyleSections
ToggleKeys == <<BOLD, ITALIC, UNDERLINE, STRIKETHROUGH, CODE, SUPERSCRIPT, SUBSCRIPT>>

PropertyKeys == <<COLOR, BGCOLOR, FONTSIZE, FONTFAMILY>>

Nbsp == <<"&", "n", "b", "s", "p", ";">>

\* the grave accent (U+0060), which a TLA+ string cannot hold: one character
Backtick == "U+0060"

-----------------------------------------------------------------------------
(* the block-type table *)

blockTypesMapping ==
  [t \in {"unstyled", "header-one", "header-two", "header-three", "header-four",
          "header-five", "header-six", "unordered-list-item",
          "ordered-list-item", "blockquote"} |->
     CASE t = "unstyled" -> <<>>
       [] t = "header-one" -> <<"#", " ">>
       [] t = "header-two" -> <<"#", "#", " ">>
       [] t = "header-three" -> <<"#", "#", "#", " ">>
       [] t = "header-four" -> <<"#", "#", "#", "#", " ">>
       [] t = "header-five" -> <<"#", "#", "#", "#", "#", " ">>
       [] t = "header-six" -> <<"#", "#", "#", "#", "#", "#", " ">>
       [] t = "unordered-list-item" -> <<"-", " ">>
       [] t = "ordered-list-item" -> <<"1", ".", " ">>
       [] t = "blockquote" -> <<">", " ">>]

getBlockTagSymbol(block) ==
  IF block.type \in DOMAIN blockTypesMapping
    THEN Str(blockTypesMapping[block.type])
    ELSE Undefined

\* ./common
isEmptyString(str) == Len(str) = 0

\* ./common
isList(type) == type \in {"unordered-list-item", "ordered-list-item"}

isAtomicBlock(block) == Len(block.entityRanges) > 0 /\ isEmptyString(block.text)

-----------------------------------------------------------------------------
(* entities *)

\* mutant: an entity that is not in the map renders as its text
getEntityMarkdown_Lenient(entityMap, entityKey, text) ==
  IF entityKey \notin DOMAIN entityMap
    THEN text
    ELSE LET entity == entityMap[entityKey] IN
         IF entity.type = "LINK" \/ entity.type = "MENTION"
           THEN Str(<<"[">> \o Interpolate(text) \o <<"]", "(">> \o entity.data.url \o <<")">>)
         ELSE IF entity.type = "IMAGE"
           THEN Str(<<"!", "(">> \o entity.data.src \o <<")">>)
         ELSE text

getEntityMarkdown(entityMap, entityKey, text) ==
  IF entityKey \notin DOMAIN entityMap
    THEN Throw  \* entity is undefined: entity.type is a TypeError
    ELSE LET entity == entityMap[entityKey] IN
         IF entity.type = "LINK" \/ entity.type = "MENTION"
           THEN Str(<<"[">> \o Interpolate(text) \o <<"]", "(">> \o entity.data.url \o <<")">>)
         ELSE IF entity.type = "IMAGE"
           THEN Str(<<"!", "(">> \o entity.data.src \o <<")">>)
         ELSE text

RECURSIVE EntitySectionsLoop(_, _, _, _)
EntitySectionsLoop(entityRanges, k, lastOffset, sections) ==
  IF k > Len(entityRanges)
    THEN [sections |-> sections, lastOffset |-> lastOffset]
    ELSE LET r == entityRanges[k]
             gap == IF r.offset > lastOffset
                      THEN <<[start |-> lastOffset, end |-> r.offset - 1]>>
                      ELSE <<>>
             own == <<[start |-> r.offset, end |-> r.offset + r.length,
                       entityKey |-> r.key]>>
         IN EntitySectionsLoop(entityRanges, k + 1, r.offset + r.length,
                               sections \o gap \o own)

\* mutant: the entity-free section before a range ends at the range's offset
RECURSIVE EntitySectionsLoop_ToOffset(_, _, _, _)
EntitySectionsLoop_ToOffset(entityRanges, k, lastOffset, sections) ==
  IF k > Len(entityRanges)
    THEN [sections |-> sections, lastOffset |-> lastOffset]
    ELSE LET r == entityRanges[k]
             gap == IF r.offset > lastOffset
                      THEN <<[start |-> lastOffset, end |-> r.offset]>>
                      ELSE <<>>
             own == <<[start |-> r.offset, end |-> r.offset + r.length,
                       entityKey |-> r.key]>>
         IN EntitySectionsLoop_ToOffset(entityRanges, k + 1, r.offset + r.length,
                                        sections \o gap \o own)

getEntitySections_ToOffset(entityRanges, blockLength) ==
  LET loop == EntitySectionsLoop_ToOffset(entityRanges, 1, 0, <<>>) IN
  loop.sections \o
    (IF loop.lastOffset < blockLength
       THEN <<[start |-> loop.lastOffset, end |-> blockLength]>>
       ELSE <<>>)

getEntitySections(entityRanges, blockLength) ==
  LET loop == EntitySectionsLoop(entityRanges, 1, 0, <<>>) IN
  loop.sections \o
    (IF loop.lastOffset < blockLength
       THEN <<[start |-> loop.lastOffset, end |-> blockLength]>>
       ELSE <<>>)

-----------------------------------------------------------------------------
(* the style arrays of a block *)

\* the body of the for loop of getStyleArrayForBlock at offset i.  The arrays
\* are read only inside the text, so a slot past its end is not kept.
SetSlot(inlineStyles, style, i) ==
  LET put(key, v) ==
        IF i \in DOMAIN inlineStyles.arr[key]
          THEN [inlineStyles EXCEPT !.arr[key][i] = v]
          ELSE inlineStyles
  IN
  IF inlineStyles.threw THEN inlineStyles
  ELSE IF StartsWith(style, ColorPrefix) THEN put(COLOR, Str(Substring(style, 6)))
  ELSE IF StartsWith(style, BgcolorPrefix) THEN put(BGCOLOR, Str(Substring(style, 8)))
  ELSE IF StartsWith(style, FontsizePrefix) THEN put(FONTSIZE, Str(Substring(style, 9)))
  ELSE IF StartsWith(style, FontfamilyPrefix) THEN put(FONTFAMILY, Str(Substring(style, 11)))
  ELSE IF style \in StyleKeys THEN put(style, True)
  ELSE IF style = LENGTH /\ inlineStyles.length # 0
    \* inlineStyles.length is a number: an assignment to a property of a
    \* primitive is a TypeError in module (strict) code
    THEN [inlineStyles EXCEPT !.threw = TRUE]
  ELSE inlineStyles

RECURSIVE StyleRangeLoop(_, _, _, _)
StyleRangeLoop(inlineStyles, style, i, length) ==
  IF i >= length THEN inlineStyles
  ELSE StyleRangeLoop(SetSlot(inlineStyles, style, i), style, i + 1, length)

RECURSIVE StyleRangesLoop(_, _, _)
StyleRangesLoop(inlineStyles, inlineStyleRanges, k) ==
  IF k > Len(inlineStyleRanges) THEN inlineStyles
  ELSE LET range == inlineStyleRanges[k] IN
       StyleRangesLoop(
         StyleRangeLoop(inlineStyles, range.style, range.offset,
                        range.offset + range.length),
         inlineStyleRanges, k + 1)

getStyleArrayForBlock(block) ==
  StyleRangesLoop(
    [threw |-> FALSE,
     arr |-> [key \in StyleKeys |-> [i \in 0..(Len(block.text) - 1) |-> Undefined]],
     length |-> Len(block.text)],
    block.inlineStyleRanges, 1)

\* mutant: the comparison of each style overwrites that of the style before
sameStyleAsPrevious_LastOnly(inlineStyles, styles, i) ==
  IF i > 0 /\ i < inlineStyles.length
    THEN inlineStyles.arr[styles[Len(styles)]][i]
           = inlineStyles.arr[styles[Len(styles)]][i - 1]
    ELSE FALSE

sameStyleAsPrevious(inlineStyles, styles, i) ==
  IF i > 0 /\ i < inlineStyles.length
    THEN \A j \in 1..Len(styles) :
           inlineStyles.arr[styles[j]][i] = inlineStyles.arr[styles[j]][i - 1]
    ELSE FALSE

\* mutant: the toggles are inserted in the order of the toggle list
getStylesAtOffset_BoldFirst(inlineStyles, offset) ==
  LET val(key) == inlineStyles.arr[key][offset]
      copy(key) == IF Truthy(val(key)) THEN <<[key |-> key, value |-> val(key)]>> ELSE <<>>
      flag(key) == IF Truthy(val(key)) THEN <<[key |-> key, value |-> True]>> ELSE <<>>
  IN copy(COLOR) \o copy(BGCOLOR) \o copy(FONTSIZE) \o copy(FONTFAMILY)
     \o flag(BOLD) \o flag(ITALIC) \o flag(UNDERLINE) \o flag(STRIKETHROUGH)
     \o flag(CODE) \o flag(SUPERSCRIPT) \o flag(SUBSCRIPT)

getStylesAtOffset(inlineStyles, offset) ==
  LET val(key) == inlineStyles.arr[key][offset]
      copy(key) == IF Truthy(val(key)) THEN <<[key |-> key, value |-> val(key)]>> ELSE <<>>
      flag(key) == IF Truthy(val(key)) THEN <<[key |-> key, value |-> True]>> ELSE <<>>
  IN copy(COLOR) \o copy(BGCOLOR) \o copy(FONTSIZE) \o copy(FONTFAMILY)
     \o flag(SUBSCRIPT) \o flag(SUPERSCRIPT) \o flag(CODE) \o flag(STRIKETHROUGH)
     \o flag(UNDERLINE) \o flag(ITALIC) \o flag(BOLD)

RECURSIVE StyleSectionsLoop(_, _, _, _, _, _, _)
StyleSectionsLoop(text, inlineStyles, styles, start, end, i, styleSections) ==
  IF i >= end THEN styleSections
  ELSE IF i # start /\ sameStyleAsPrevious(inlineStyles, styles, i)
    THEN LET n == Len(styleSections)
             section == styleSections[n]
         IN StyleSectionsLoop(text, inlineStyles, styles, start, end, i + 1,
              [styleSections EXCEPT ![n] =
                 [section EXCEPT !.text = Append(section.text, text[i + 1]),
                                 !.end = i + 1]])
    ELSE StyleSectionsLoop(text, inlineStyles, styles, start, end, i + 1,
           Append(styleSections,
                  [styles |-> getStylesAtOffset(inlineStyles, i),
                   text |-> <<text[i + 1]>>,
                   start |-> i,
                   end |-> i + 1]))

\* [threw, sections]: threw when getStyleArrayForBlock throws
getStyleSections(block, styles, start, end) ==
  IF Len(block.text) > 0
    THEN LET loop(inlineStyles) ==
               IF inlineStyles.threw
                 THEN [threw |-> TRUE, sections |-> <<>>]
                 ELSE [threw |-> FALSE,
                       sections |-> StyleSectionsLoop(block.text, inlineStyles, styles,
                                                      start, end, start, <<>>)]
         IN loop(getStyleArrayForBlock(block))
    ELSE [threw |-> FALSE, sections |-> <<>>]

-----------------------------------------------------------------------------
(* rendering *)

RECURSIVE Concat(_)
Concat(strs) == IF strs = <<>> THEN <<>> ELSE Head(strs) \o Concat(Tail(strs))

getSectionText(text) ==
  LET esc(ch) ==
        IF ch = "\n" THEN <<"\\", "s", "\\", "s", "\n">>
        ELSE IF ch = "&" THEN <<"&", "a", "m", "p", ";">>
        ELSE IF ch = "<" THEN <<"&", "l", "t", ";">>
        ELSE IF ch = ">" THEN <<"&", "g", "t", ";">>
        ELSE <<ch>>
  IN Concat([j \in 1..Len(text) |-> esc(text[j])])

addInlineStyleMarkup(style, content) ==
  IF style = BOLD THEN <<"*", "*">> \o content \o <<"*", "*">>
  ELSE IF style = ITALIC THEN <<"*">> \o content \o <<"*">>
  ELSE IF style = UNDERLINE THEN <<"_", "_">> \o content \o <<"_", "_">>
  ELSE IF style = STRIKETHROUGH THEN <<"~", "~">> \o content \o <<"~", "~">>
  ELSE IF style = CODE THEN <<Backtick>> \o content \o <<Backtick>>
  ELSE IF style = SUPERSCRIPT
    THEN <<"<", "s", "u", "p", ">">> \o content \o <<"<", "/", "s", "u", "p", ">">>
  ELSE IF style = SUBSCRIPT
    THEN <<"<", "s", "u", "b", ">">> \o content \o <<"<", "/", "s", "u", "b", ">">>
  ELSE content

\* ./common: forEach(obj, callback) calls callback(key, value) for each own
\* key of the object, in the order the keys were inserted: the calls it makes
forEach(obj) == [k \in 1..Len(obj) |-> <<obj[k].key, obj[k].value>>]

RECURSIVE StyleTagLoop(_, _, _)
StyleTagLoop(calls, k, content) ==
  IF k > Len(calls) THEN content
  ELSE StyleTagLoop(calls, k + 1, addInlineStyleMarkup(calls[k][1], content))

getStyleTagSectionMarkdown(styles, text) == StyleTagLoop(forEach(styles), 1, text)

addStylePropertyMarkdown(styleSection) ==
  LET styles == styleSection.styles
      decl(value, name) ==
        IF Truthy(value)
          THEN name \o <<":", " ">> \o Interpolate(value) \o <<";">>
          ELSE <<>>
      span(content) ==
        IF \E key \in {COLOR, BGCOLOR, FONTSIZE, FONTFAMILY} : Truthy(Get(styles, key))
          THEN <<"<", "s", "p", "a", "n", " ", "s", "t", "y", "l", "e", "=", "\"">>
               \o decl(Get(styles, COLOR), <<"c", "o", "l", "o", "r">>)
               \o decl(Get(styles, BGCOLOR),
                       <<"b", "a", "c", "k", "g", "r", "o", "u", "n", "d", "-",
                         "c", "o", "l", "o", "r">>)
               \o decl(Get(styles, FONTSIZE), <<"f", "o", "n", "t", "-", "s", "i", "z", "e">>)
               \o decl(Get(styles, FONTFAMILY),
                       <<"f", "o", "n", "t", "-", "f", "a", "m", "i", "l", "y">>)
               \o <<"\"", ">">> \o content \o <<"<", "/", "s", "p", "a", "n", ">">>
          ELSE content
  IN span(getSectionText(styleSection.text))

\* the text of one toggle run: its property runs, each wrapped in its span
StyleSectionText(block, styleSection) ==
  LET each(stylePropertySections) ==
        Concat([j \in 1..Len(stylePropertySections) |->
                  addStylePropertyMarkdown(stylePropertySections[j])])
  IN getStyleTagSectionMarkdown(
       styleSection.styles,
       each(getStyleSections(block, PropertyKeys,
                             styleSection.start, styleSection.end).sections))

getEntitySectionMarkdown(block, entityMap, entitySection) ==
  LET each(sections) ==
        Str(Concat([j \in 1..Len(sections) |-> StyleSectionText(block, sections[j])]))
      entity(sectionText) ==
        IF "entityKey" \in DOMAIN entitySection
          THEN getEntityMarkdown(entityMap, entitySection.entityKey, sectionText)
          ELSE sectionText
      render(styleSections) ==
        IF styleSections.threw THEN Throw ELSE entity(each(styleSections.sections))
  IN render(getStyleSections(block, ToggleKeys, entitySection.start, entitySection.end))

-----------------------------------------------------------------------------
(* the space replacement *)

\* String.prototype.replace(space, nbsp): the first space only
RECURSIVE ReplaceFirstSpace(_)
ReplaceFirstSpace(s) ==
  IF s = <<>> THEN <<>>
  ELSE IF Head(s) = " " THEN Nbsp \o Tail(s)
  ELSE <<Head(s)>> \o ReplaceFirstSpace(Tail(s))

RECURSIVE LeadingLoop(_, _, _)
LeadingLoop(sectionText, replacedText, i) ==
  IF i < Len(replacedText) /\ i < Len(sectionText) /\ sectionText[i + 1] = " "
    THEN LeadingLoop(sectionText, ReplaceFirstSpace(replacedText), i + 1)
    ELSE replacedText

\* mutant: the loop reads the replaced text, where the marker has taken the
\* place of the space
RECURSIVE LeadingLoop_ReadsReplaced(_, _)
LeadingLoop_ReadsReplaced(replacedText, i) ==
  IF i < Len(replacedText) /\ replacedText[i + 1] = " "
    THEN LeadingLoop_ReadsReplaced(ReplaceFirstSpace(replacedText), i + 1)
    ELSE replacedText

trimLeadingZeros_ReadsReplaced(sectionText) ==
  IF sectionText # <<>> THEN LeadingLoop_ReadsReplaced(sectionText, 0) ELSE sectionText

trimLeadingZeros(sectionText) ==
  IF sectionText # <<>> THEN LeadingLoop(sectionText, sectionText, 0) ELSE sectionText

RECURSIVE TrailingLoop(_, _)
TrailingLoop(replacedText, i) ==
  IF i >= 0 /\ replacedText[i + 1] = " "
    THEN TrailingLoop(SubSeq(replacedText, 1, i) \o Nbsp
                        \o SubSeq(replacedText, i + 2, Len(replacedText)),
                      i - 1)
    ELSE replacedText

trimTrailingZeros(sectionText) ==
  IF sectionText # <<>> THEN TrailingLoop(sectionText, Len(sectionText) - 1)
  ELSE sectionText

-----------------------------------------------------------------------------
(* blocks *)

\* the callback of entitySections.forEach in getBlockContentMarkdown
\* mutant: the replacement is applied to every section
SectionMarkdown_EverySection(block, entityMap, entitySections, j) ==
  LET trim(sectionText) ==
        IF sectionText.kind = "str"
          THEN Str(trimTrailingZeros(trimLeadingZeros(sectionText.val)))
          ELSE sectionText
  IN trim(getEntitySectionMarkdown(block, entityMap, entitySections[j]))

SectionMarkdown(block, entityMap, entitySections, j) ==
  LET trail(sectionText) ==
        IF j = Len(entitySections) THEN trimTrailingZeros(sectionText) ELSE sectionText
      lead(sectionText) ==
        IF j = 1 THEN trail(trimLeadingZeros(sectionText)) ELSE trail(sectionText)
      trim(sectionText) ==
        IF sectionText.kind = "str" THEN Str(lead(sectionText.val)) ELSE sectionText
  IN trim(getEntitySectionMarkdown(block, entityMap, entitySections[j]))

getBlockContentMarkdown(block, entityMap) ==
  IF isAtomicBlock(block)
    THEN getEntityMarkdown(entityMap, block.entityRanges[1].key, Undefined)
    ELSE LET each(entitySections) ==
               [j \in 1..Len(entitySections) |->
                  SectionMarkdown(block, entityMap, entitySections, j)]
             join(blockMarkdown) ==
               IF \E j \in 1..Len(blockMarkdown) : blockMarkdown[j].kind = "throw"
                 THEN Throw
                 ELSE Str(Concat([j \in 1..Len(blockMarkdown) |->
                                    JoinItem(blockMarkdown[j])]))
         IN join(each(getEntitySections(block.entityRanges, Len(block.text))))

getBlockStyle(data) ==
  LET calls == forEach(data) IN
  Concat([k \in 1..Len(calls) |-> calls[k][1] \o <<":">> \o calls[k][2] \o <<";">>])

getBlockStyleProperty(blockData, content) ==
  LET span(blockStyle) ==
        IF blockStyle # <<>>
          THEN Str(<<"<", "s", "p", "a", "n", " ", "s", "t", "y", "l", "e", "=", "\"">>
                   \o blockStyle \o <<"\"", ">">> \o Interpolate(content)
                   \o <<"<", "/", "s", "p", "a", "n", ">">>)
          ELSE content
  IN span(getBlockStyle(blockData))

getBlockMarkdown(block, entityMap) ==
  LET join(blockContentMarkdown) ==
        IF blockContentMarkdown.kind = "throw" THEN Throw
        ELSE Str(JoinItem(getBlockTagSymbol(block))
                 \o JoinItem(getBlockStyleProperty(block.data, blockContentMarkdown))
                 \o <<"\n">>)
  IN join(getBlockContentMarkdown(block, entityMap))

RECURSIVE DepthPaddingLoop(_, _, _)
DepthPaddingLoop(padding, i, depth) ==
  IF i < depth * 4 THEN DepthPaddingLoop(padding \o <<" ">>, i + 1, depth) ELSE padding

\* mutant: the loop runs to depth * 4 inclusive
RECURSIVE DepthPaddingLoop_Inclusive(_, _, _)
DepthPaddingLoop_Inclusive(padding, i, depth) ==
  IF i <= depth * 4 THEN DepthPaddingLoop_Inclusive(padding \o <<" ">>, i + 1, depth)
  ELSE padding

getDepthPadding_Inclusive(depth) == DepthPaddingLoop_Inclusive(<<>>, 0, depth)

getDepthPadding(depth) == DepthPaddingLoop(<<>>, 0, depth)

\* the callback of blocks.forEach in draftToMarkdown: the string pushed
BlockOutput(block, entityMap) ==
  LET pad(content) ==
        IF content.kind = "throw" THEN Throw
        ELSE IF isList(block.type) THEN Str(getDepthPadding(block.depth) \o content.val)
        ELSE content
  IN pad(getBlockMarkdown(block, entityMap))

-----------------------------------------------------------------------------
(* draftToMarkdown as a state machine: one step per block of blocks.forEach, *)
(* then the return of the joined string                                      *)

\* the callback of blocks.forEach for the block at index: its string is
\* pushed, or the TypeError ends the conversion
PushBlock ==
  /\ pc = "blocks"
  /\ index <= Len(editorContent.blocks)
  /\ LET push(content) ==
           IF content.kind = "throw"
             THEN /\ pc' = "thrown"
                  /\ UNCHANGED <<index, markdown>>
             ELSE /\ markdown' = Append(markdown, content.val)
                  /\ index' = index + 1
                  /\ pc' = "blocks"
     IN push(BlockOutput(editorContent.blocks[index], editorContent.entityMap))
  /\ UNCHANGED <<editorContent, result>>

\* return markdown.join('')
Return ==
  /\ pc = "blocks"
  /\ index > Len(editorContent.blocks)
  /\ result' = Concat(markdown)
  /\ pc' = "done"
  /\ UNCHANGED <<editorContent, index, markdown>>

Next == PushBlock \/ Return

\* the state at the entry of draftToMarkdown(doc)
Start(doc) ==
  /\ editorContent = doc
  /\ pc = "blocks"
  /\ index = 1
  /\ markdown = <<>>
  /\ result = <<>>

-----------------------------------------------------------------------------
(* bounded inputs *)

MaxLen == 3

MaxStyleRanges == 2

MaxEntityRanges == 2

MaxDepth == 2

MaxBlocks == 2

\* the ranges inside a text of length len
RangesIn(len) ==
  {r \in [offset : 0..len, length : 1..len] : r.offset + r.length <= len}

StyleRangesIn(tags, len) ==
  {[style |-> t, offset |-> r.offset, length |-> r.length] :
     t \in tags, r \in RangesIn(len)}

\* the text of the run example, and its prefixes
Letters == <<"t", "u", "v", "w", "x", "y", "z">>

ColorR == ColorPrefix \o <<"r">>

ColorG == ColorPrefix \o <<"g">>

\* a tag that is no style name and has no property prefix
Unknown == <<"H", "I", "G", "H", "L", "I", "G", "H", "T">>

Block(type, text, depth, inlineStyleRanges, entityRanges, data) ==
  [type |-> type, text |-> text, depth |-> depth,
   inlineStyleRanges |-> inlineStyleRanges, entityRanges |-> entityRanges,
   data |-> data]

Doc(blocks, entityMap) == [blocks |-> blocks, entityMap |-> entityMap]

\* the entity map of every document: keys 0, 1, 2; key 3 is in no map
Entities ==
  [k \in 0..2 |->
     [type |-> CASE k = 0 -> "LINK" [] k = 1 -> "IMAGE" [] k = 2 -> "TOKEN",
      data |-> [url |-> <<"u">>, src |-> <<"s">>]]]

EntityKeys == 0..3

TextAlign ==
  <<[key |-> <<"t", "e", "x", "t", "-", "a", "l", "i", "g", "n">>,
     value |-> <<"c", "e", "n", "t", "e", "r">>]>>

(* documents of one block with inline style ranges and no entity: the runs *)

\* BOLD over [0,5) and ITALIC over [2,7) on a 7-character text
RunExample ==
  Block("unstyled", Letters, 0,
        <<[style |-> BOLD, offset |-> 0, length |-> 5],
          [style |-> ITALIC, offset |-> 2, length |-> 5]>>,
        <<>>, <<>>)

\* two colours, the later range over the earlier one, under BOLD
ColourExample ==
  Block("unstyled", SubSeq(Letters, 1, 4), 0,
        <<[style |-> ColorR, offset |-> 0, length |-> 3],
          [style |-> BOLD, offset |-> 1, length |-> 3],
          [style |-> ColorG, offset |-> 2, length |-> 2]>>,
        <<>>, <<>>)

StyleTags == {BOLD, ITALIC, ColorR}

StyleBlock(len, ranges) == Block("unstyled", SubSeq(Letters, 1, len), 0, ranges, <<>>, <<>>)

\* as draft-js writes them: the ranges of one tag in offset order and disjoint
Grouped(inlineStyleRanges) ==
  \A j \in 1..Len(inlineStyleRanges) : \A k \in (j + 1)..Len(inlineStyleRanges) :
    inlineStyleRanges[j].style = inlineStyleRanges[k].style =>
      inlineStyleRanges[j].offset + inlineStyleRanges[j].length
        <= inlineStyleRanges[k].offset

InitStyle ==
  \/ \E block \in {RunExample, ColourExample} : Start(Doc(<<block>>, Entities))
  \/ \E len \in 1..MaxLen : \E n \in 0..MaxStyleRanges :
       \E ranges \in [1..n -> StyleRangesIn(StyleTags, len)] :
         /\ Grouped(ranges)
         /\ Start(Doc(<<StyleBlock(len, ranges)>>, Entities))

SpecStyle == InitStyle /\ [][Next]_vars

(* documents of one block whose ranges carry any tag: the nesting *)

\* the seven toggles over one text, in an order of their own
AllToggles ==
  StyleBlock(1, [j \in 1..7 |->
                   [style |-> <<CODE, BOLD, SUBSCRIPT, UNDERLINE, SUPERSCRIPT,
                                ITALIC, STRIKETHROUGH>>[j],
                    offset |-> 0, length |-> 1]])

NestTags == {BOLD, ITALIC, UNDERLINE, STRIKETHROUGH, CODE, SUPERSCRIPT, SUBSCRIPT,
             COLOR, LENGTH, Unknown}

\* over the whole text, or over its first character
NestRangesIn(len) ==
  {[style |-> t, offset |-> 0, length |-> l] : t \in NestTags, l \in {1, len}}

InitNest ==
  \/ Start(Doc(<<AllToggles>>, Entities))
  \/ \E len \in 1..MaxLen : \E n \in 0..MaxStyleRanges :
       \E ranges \in [1..n -> NestRangesIn(len)] :
         Start(Doc(<<StyleBlock(len, ranges)>>, Entities))

SpecNest == InitNest /\ [][Next]_vars

(* documents of one block with entity ranges: sorted, disjoint, in the text *)

EntityRangesIn(len) ==
  {[key |-> key, offset |-> r.offset, length |-> r.length] :
     key \in EntityKeys,
     r \in IF len = 0 THEN {[offset |-> 0, length |-> 0]} ELSE RangesIn(len)}

Sorted(entityRanges) ==
  \A j \in 1..(Len(entityRanges) - 1) :
    entityRanges[j].offset + entityRanges[j].length <= entityRanges[j + 1].offset

EntityBlock(text, entityRanges) == Block("unstyled", text, 0, <<>>, entityRanges, <<>>)

SpaceExample == EntityBlock(<<" ", " ", "m", "i", "d", " ", " ">>, <<>>)

\* the block alone, or after a block of plain text
InitEntity ==
  \/ Start(Doc(<<SpaceExample>>, Entities))
  \/ \E len \in 0..MaxLen : \E text \in [1..len -> {"x", " "}] :
       \E n \in 0..MaxEntityRanges : \E entityRanges \in [1..n -> EntityRangesIn(len)] :
         \E before \in {<<>>, <<EntityBlock(<<"x">>, <<>>)>>} :
           /\ Sorted(entityRanges)
           /\ Start(Doc(before \o <<EntityBlock(text, entityRanges)>>, Entities))

SpecEntity == InitEntity /\ [][Next]_vars

(* documents of one block with no range: every text *)

PlainTypes == {"unstyled", "header-two", "unordered-list-item", "code-block"}

InitPlain ==
  \E type \in PlainTypes : \E depth \in {0, MaxDepth} : \E data \in {<<>>, TextAlign} :
    \E len \in 0..MaxLen : \E text \in [1..len -> {"x", " ", "\n", "&", "<", ">"}] :
      Start(Doc(<<Block(type, text, depth, <<>>, <<>>, data)>>, Entities))

SpecPlain == InitPlain /\ [][Next]_vars

(* documents of several blocks: types and depths *)

ListTypes == {"unstyled", "header-one", "unordered-list-item", "ordered-list-item"}

Init ==
  \E n \in 0..MaxBlocks :
    \E blocks \in [1..n -> {Block(type, <<"x">>, depth, <<>>, <<>>, <<>>) :
                              type \in ListTypes, depth \in 0..MaxDepth}] :
      Start(Doc(blocks, Entities))

Spec == Init /\ [][Next]_vars

-----------------------------------------------------------------------------
(* what the claims speak of *)

\* the blocks draftToMarkdown has converted so far
Converted == 1..Len(markdown)

BlockAt(k) == editorContent.blocks[k]

\* the style kind a tag sets, and the value it sets there
KindOf(style) ==
  IF StartsWith(style, ColorPrefix) THEN COLOR
  ELSE IF StartsWith(style, BgcolorPrefix) THEN BGCOLOR
  ELSE IF StartsWith(style, FontsizePrefix) THEN FONTSIZE
  ELSE IF StartsWith(style, FontfamilyPrefix) THEN FONTFAMILY
  ELSE style

ValueOf(style) ==
  IF StartsWith(style, ColorPrefix) THEN Str(Substring(style, Len(ColorPrefix)))
  ELSE IF StartsWith(style, BgcolorPrefix) THEN Str(Substring(style, Len(BgcolorPrefix)))
  ELSE IF StartsWith(style, FontsizePrefix) THEN Str(Substring(style, Len(FontsizePrefix)))
  ELSE IF StartsWith(style, FontfamilyPrefix) THEN Str(Substring(style, Len(FontfamilyPrefix)))
  ELSE True

\* the value of a style kind at an offset of the block's text: that of the
\* last inline style range of the kind that covers the offset
ValueAt(block, key, i) ==
  LET covering == {k \in 1..Len(block.inlineStyleRanges) :
                     /\ KindOf(block.inlineStyleRanges[k].style) = key
                     /\ block.inlineStyleRanges[k].offset <= i
                     /\ i < block.inlineStyleRanges[k].offset
                              + block.inlineStyleRanges[k].length}
  IN IF covering = {} THEN Undefined
     ELSE ValueOf(block.inlineStyleRanges[CHOOSE k \in covering :
                                            \A m \in covering : m <= k].style)

Bounds(sections) == [j \in 1..Len(sections) |-> <<sections[j].start, sections[j].end>>]

\* ValueAt for every kind and offset of the block
ValuesOf(block) ==
  [key \in StyleKeys |-> [i \in 0..(Len(block.text) - 1) |-> ValueAt(block, key, i)]]

\* the runs of [start, end) are contiguous, non-empty, constant and maximal
RunsOk(block, values, keys, start, end) ==
  LET runs == getStyleSections(block, keys, start, end).sections
      n == Len(runs)
  IN /\ (n = 0) <=> (start = end)
     /\ n > 0 => runs[1].start = start /\ runs[n].end = end
     /\ \A j \in 1..n :
          /\ runs[j].start < runs[j].end
          /\ runs[j].text = SubSeq(block.text, runs[j].start + 1, runs[j].end)
          /\ \A i \in runs[j].start..(runs[j].end - 1) : \A m \in 1..Len(keys) :
               values[keys[m]][i] = values[keys[m]][runs[j].start]
     /\ \A j \in 1..(n - 1) :
          /\ runs[j].end = runs[j + 1].start
          /\ \E m \in 1..Len(keys) :
               values[keys[m]][runs[j].end - 1] # values[keys[m]][runs[j + 1].start]

\* C10: for a block with non-empty text, both key sets and every range
\* [start, end) of the text, getStyleSections returns contiguous, ordered,
\* non-empty runs from start to end, each constant in every key of the key
\* set, adjacent runs differing in some key; the run example gives exactly
\* the toggle runs [0,2), [2,5), [5,7)
C10_RunsMaximal ==
  pc = "done" =>
    \A k \in Converted :
      LET block == BlockAt(k)
          values == ValuesOf(block)
      IN Len(block.text) > 0 =>
           /\ \A keys \in {ToggleKeys, PropertyKeys} :
                \A start \in 0..Len(block.text) : \A end \in start..Len(block.text) :
                  RunsOk(block, values, keys, start, end)
           /\ block = RunExample =>
                Bounds(getStyleSections(block, ToggleKeys, 0, Len(block.text)).sections)
                  = <<<<0, 2>>, <<2, 5>>, <<5, 7>>>>

C10_Witness ==
  /\ pc = "done"
  /\ BlockAt(1) = RunExample
  /\ Len(getStyleSections(BlockAt(1), ToggleKeys, 0, 7).sections) = 3
  /\ result = <<"*", "*", "t", "u", "*", "*", "*", "*", "*", "v", "w", "x", "*",
                "*", "*", "*", "y", "z", "*", "\n">>

-----------------------------------------------------------------------------
(* C1 *)

\* every offset of the text lies in exactly one section
CoversOnce(sections, len) ==
  \A i \in 0..(len - 1) :
    Cardinality({j \in 1..Len(sections) :
                   sections[j].start <= i /\ i < sections[j].end}) = 1

ToggleSectionsOf(block) ==
  LET entitySections == getEntitySections(block.entityRanges, Len(block.text)) IN
  Concat([j \in 1..Len(entitySections) |->
            getStyleSections(block, ToggleKeys, entitySections[j].start,
                             entitySections[j].end).sections])

PropertySectionsOf(block) ==
  LET styleSections == ToggleSectionsOf(block) IN
  Concat([j \in 1..Len(styleSections) |->
            getStyleSections(block, PropertyKeys, styleSections[j].start,
                             styleSections[j].end).sections])

\* C1: for a block with sorted, disjoint entity ranges inside its text, the
\* entity sections, the toggle-style sections of all entity sections and the
\* property-style sections of all toggle sections each cover every offset of
\* the text exactly once
C1_PartitionsCover ==
  \A k \in Converted :
    LET block == BlockAt(k) IN
    /\ CoversOnce(getEntitySections(block.entityRanges, Len(block.text)), Len(block.text))
    /\ CoversOnce(ToggleSectionsOf(block), Len(block.text))
    /\ CoversOnce(PropertySectionsOf(block), Len(block.text))

-----------------------------------------------------------------------------
(* C2 *)

EscapeOf(ch) ==
  CASE ch = "\n" -> <<"\\", "s", "\\", "s", "\n">>
    [] ch = "&" -> <<"&", "a", "m", "p", ";">>
    [] ch = "<" -> <<"&", "l", "t", ";">>
    [] ch = ">" -> <<"&", "g", "t", ";">>
    [] OTHER -> <<ch>>

Escaped(text) == Concat([j \in 1..Len(text) |-> EscapeOf(text[j])])

\* the number of contiguous spaces at the start, and at the end, of a string
LeadingSpaces(s) ==
  Cardinality({n \in 1..Len(s) : \A j \in 1..n : s[j] = " "})

TrailingSpaces(s) ==
  Cardinality({n \in 1..Len(s) : \A j \in (Len(s) - n + 1)..Len(s) : s[j] = " "})

Markers(n) == Concat([j \in 1..n |-> Nbsp])

\* each of the spaces at the start replaced by one marker, the rest as it is
LeadingMarked(s) == Markers(LeadingSpaces(s)) \o SubSeq(s, LeadingSpaces(s) + 1, Len(s))

TrailingMarked(s) ==
  SubSeq(s, 1, Len(s) - TrailingSpaces(s)) \o Markers(TrailingSpaces(s))

Spaces(n) == [j \in 1..n |-> " "]

PrefixOf(block) ==
  IF block.type \in DOMAIN blockTypesMapping THEN blockTypesMapping[block.type] ELSE <<>>

IndentOf(block) ==
  IF block.type \in {"unordered-list-item", "ordered-list-item"}
    THEN Spaces(4 * block.depth)
    ELSE <<>>

\* the span of the block-level style data around a content
InData(block, content) ==
  IF block.data = <<>> THEN content
  ELSE <<"<", "s", "p", "a", "n", " ", "s", "t", "y", "l", "e", "=", "\"">>
       \o Concat([j \in 1..Len(block.data) |->
                    block.data[j].key \o <<":">> \o block.data[j].value \o <<";">>])
       \o <<"\"", ">">> \o content \o <<"<", "/", "s", "p", "a", "n", ">">>

Plain(block) == block.inlineStyleRanges = <<>> /\ block.entityRanges = <<>>

\* C2 as stated: the output of a block with no inline style range and no
\* entity range is the type's prefix, the escaped text and a line terminator
C2_PlainOutput ==
  \A k \in Converted :
    Plain(BlockAt(k)) =>
      markdown[k] = PrefixOf(BlockAt(k)) \o Escaped(BlockAt(k).text) \o <<"\n">>

\* C2 as amended: the output of a block with no inline style range and no
\* entity range is the indentation of a list block, the type's prefix, the
\* escaped text with each space at its start and at its end replaced by one
\* marker, inside the span of the block's data if it has any, and a line
\* terminator
C2_PlainOutputMarked ==
  \A k \in Converted :
    Plain(BlockAt(k)) =>
      markdown[k] =
        IndentOf(BlockAt(k)) \o PrefixOf(BlockAt(k))
          \o InData(BlockAt(k), TrailingMarked(LeadingMarked(Escaped(BlockAt(k).text))))
          \o <<"\n">>

C2_Witness ==
  /\ pc = "done"
  /\ BlockAt(1).type = "header-two"
  /\ BlockAt(1).data = <<>>
  /\ BlockAt(1).text = <<" ", "&", " ">>
  /\ result = <<"#", "#", " ">> \o Nbsp \o <<"&", "a", "m", "p", ";">> \o Nbsp \o <<"\n">>

-----------------------------------------------------------------------------
(* C3 *)

\* the toggles present at an offset of the block's text
PresentAt(block, i) ==
  {ToggleKeys[m] : m \in {m \in 1..Len(ToggleKeys) : ValueAt(block, ToggleKeys[m], i) = True}}

\* content wrapped by the markup of the present styles, taken in the order
\* given: the first present one innermost
RECURSIVE NestIn(_, _, _, _)
NestIn(order, k, present, content) ==
  IF k > Len(order) THEN content
  ELSE NestIn(order, k + 1, present,
              IF order[k] \in present THEN addInlineStyleMarkup(order[k], content)
              ELSE content)

InsertionOrder == <<SUBSCRIPT, SUPERSCRIPT, CODE, STRIKETHROUGH, UNDERLINE, ITALIC, BOLD>>

TogglesOnly(block) ==
  \A j \in 1..Len(block.inlineStyleRanges) :
    \E m \in 1..Len(ToggleKeys) : block.inlineStyleRanges[j].style = ToggleKeys[m]

\* the toggle runs of the block nest their present styles in the order given,
\* and so does the output of a block that has only toggle ranges
NestsIn(order) ==
  pc = "done" =>
    \A k \in Converted :
      LET block == BlockAt(k)
          runs == getStyleSections(block, ToggleKeys, 0, Len(block.text)).sections
      IN /\ \A j \in 1..Len(runs) :
              Cardinality(PresentAt(block, runs[j].start)) >= 2 =>
                getStyleTagSectionMarkdown(runs[j].styles, runs[j].text)
                  = NestIn(order, 1, PresentAt(block, runs[j].start), runs[j].text)
         /\ TogglesOnly(block) =>
              markdown[k] =
                Concat([j \in 1..Len(runs) |->
                          NestIn(order, 1, PresentAt(block, runs[j].start), runs[j].text)])
                  \o <<"\n">>

\* C3 as stated: on a toggle run with two or more toggle styles the markup
\* nests in the order BOLD, ITALIC, UNDERLINE, STRIKETHROUGH, CODE,
\* SUPERSCRIPT, SUBSCRIPT, the first present style innermost
C3_NestingOrder == NestsIn(ToggleKeys)

\* C3 as amended: on a toggle run with two or more toggle styles the markup
\* nests in the order SUBSCRIPT, SUPERSCRIPT, CODE, STRIKETHROUGH, UNDERLINE,
\* ITALIC, BOLD, the first present style innermost and the last outermost,
\* whatever the order of the inline style ranges
C3_NestingOrderOfCode == NestsIn(InsertionOrder)

C3_Witness ==
  /\ pc = "done"
  /\ BlockAt(1).text = <<"t">>
  /\ BlockAt(1).inlineStyleRanges =
       <<[style |-> BOLD, offset |-> 0, length |-> 1],
         [style |-> UNDERLINE, offset |-> 0, length |-> 1]>>
  /\ result = <<"*", "*", "_", "_", "t", "_", "_", "*", "*", "\n">>

-----------------------------------------------------------------------------
(* C4 *)

\* C4: for a block with an entity range and empty text the content is the
\* markup of the first range's entity around the empty string: [](url) for a
\* LINK or MENTION, !(src) for an IMAGE, the empty string for any other type
C4_AtomicEntityMarkup ==
  \A k \in Converted :
    LET block == BlockAt(k)
        entity == editorContent.entityMap[block.entityRanges[1].key]
        markup == IF entity.type \in {"LINK", "MENTION"}
                    THEN <<"[", "]", "(">> \o entity.data.url \o <<")">>
                  ELSE IF entity.type = "IMAGE"
                    THEN <<"!", "(">> \o entity.data.src \o <<")">>
                  ELSE <<>>
    IN (block.entityRanges # <<>> /\ block.text = <<>>) =>
         /\ JoinItem(getBlockContentMarkdown(block, editorContent.entityMap)) = markup
         /\ markdown[k] = PrefixOf(block) \o InData(block, markup) \o <<"\n">>

-----------------------------------------------------------------------------
(* C5 *)

\* the block being converted when the TypeError ended the conversion
Processed == Converted \cup (IF pc = "thrown" THEN {index} ELSE {})

Ignorable(style) ==
  /\ \A m \in 1..Len(ToggleKeys) : style # ToggleKeys[m]
  /\ ~StartsWith(style, ColorPrefix)
  /\ ~StartsWith(style, BgcolorPrefix)
  /\ ~StartsWith(style, FontsizePrefix)
  /\ ~StartsWith(style, FontfamilyPrefix)

Without(block, j) ==
  [block EXCEPT !.inlineStyleRanges =
     SubSeq(block.inlineStyleRanges, 1, j - 1)
       \o SubSeq(block.inlineStyleRanges, j + 1, Len(block.inlineStyleRanges))]

\* C5: an inline style range whose tag is no toggle name and has no property
\* prefix changes no style array, raises no error and leaves the output of
\* the block what it is without the range
C5_OtherTagsIgnored ==
  \A k \in Processed :
    \A j \in 1..Len(BlockAt(k).inlineStyleRanges) :
      Ignorable(BlockAt(k).inlineStyleRanges[j].style) =>
        /\ getStyleArrayForBlock(BlockAt(k)) = getStyleArrayForBlock(Without(BlockAt(k), j))
        /\ BlockOutput(BlockAt(k), editorContent.entityMap)
             = BlockOutput(Without(BlockAt(k), j), editorContent.entityMap)

-----------------------------------------------------------------------------
(* C6 *)

Absent(key) == key \notin DOMAIN editorContent.entityMap

\* the block has an entity range whose key is in no entry of the entity map
HasAbsentKey(block) ==
  \E j \in 1..Len(block.entityRanges) : Absent(block.entityRanges[j].key)

\* the block has such a range among those it renders: its first range when
\* its text is empty, any range otherwise
RendersAbsentKey(block) ==
  IF block.text = <<>>
    THEN block.entityRanges # <<>> /\ Absent(block.entityRanges[1].key)
    ELSE HasAbsentKey(block)

\* the conversion of the k-th block ended in the error: the block's output is
\* never pushed and draftToMarkdown never returns
EndsInError(k) == Len(markdown) < k /\ pc # "done" /\ result = <<>>

\* C6 as stated: a block with an entity range whose key is absent from the
\* entity map ends the conversion in an error, on the atomic path and on the
\* entity-section path, and no output string is returned
C6_AbsentKeyThrows ==
  \A k \in 1..Len(editorContent.blocks) : HasAbsentKey(BlockAt(k)) => EndsInError(k)

\* C6 as amended: a block that renders an entity range whose key is absent
\* from the entity map (on the atomic path its first range, on the
\* entity-section path any of its ranges) ends the conversion in an error and
\* no output string is returned
C6_RenderedAbsentKeyThrows ==
  \A k \in 1..Len(editorContent.blocks) :
    RendersAbsentKey(BlockAt(k)) => EndsInError(k)

C6_Witness ==
  /\ pc = "thrown"
  /\ index = 2
  /\ markdown = <<<<"x", "\n">>>>
  /\ result = <<>>
  /\ BlockAt(index).text # <<>>
  /\ Len(BlockAt(index).entityRanges) = 2
  /\ ~Absent(BlockAt(index).entityRanges[1].key)
  /\ Absent(BlockAt(index).entityRanges[2].key)

-----------------------------------------------------------------------------
(* C7 *)

\* C7: the content of a block is the rendered texts of its entity sections,
\* the first with each of its leading spaces replaced by one marker, the last
\* with each of its trailing spaces replaced by one marker (both when there
\* is one section), every other section and every other character unchanged
C7_EdgeSpacesOnly ==
  \A k \in Converted :
    LET block == BlockAt(k)
        entitySections == getEntitySections(block.entityRanges, Len(block.text))
        n == Len(entitySections)
        rendered(j) ==
          getEntitySectionMarkdown(block, editorContent.entityMap, entitySections[j]).val
        first(j) == IF j = 1 THEN LeadingMarked(rendered(j)) ELSE rendered(j)
        last(j) == IF j = n THEN TrailingMarked(first(j)) ELSE first(j)
    IN ~(block.text = <<>> /\ block.entityRanges # <<>>) =>
         markdown[k] = PrefixOf(block) \o Concat([j \in 1..n |-> last(j)]) \o <<"\n">>

C7_Witness ==
  /\ pc = "done"
  /\ BlockAt(1) = SpaceExample
  /\ result = Nbsp \o Nbsp \o <<"m", "i", "d">> \o Nbsp \o Nbsp \o <<"\n">>

-----------------------------------------------------------------------------
(* C8 *)

\* C8: the output of a list block of depth d is 4*d spaces, the type's
\* prefix, the content and one line terminator; the output of any other
\* block is the prefix, the content and one line terminator; the document is
\* the outputs of its blocks in their order
C8_IndentAndOrder ==
  /\ \A k \in Converted :
       LET block == BlockAt(k)
           indent == IF block.type \in {"unordered-list-item", "ordered-list-item"}
                       THEN 4 * block.depth ELSE 0
           prefix == PrefixOf(block)
           out == markdown[k]
       IN /\ Len(out) = indent + Len(prefix) + Len(block.text) + 1
          /\ \A j \in 1..indent : out[j] = " "
          /\ SubSeq(out, indent + 1, indent + Len(prefix)) = prefix
          /\ SubSeq(out, indent + Len(prefix) + 1, Len(out) - 1) = block.text
          /\ out[Len(out)] = "\n"
  /\ pc = "done" =>
       /\ Len(markdown) = Len(editorContent.blocks)
       /\ result =
            Concat([k \in 1..Len(editorContent.blocks) |->
                      IndentOf(BlockAt(k)) \o PrefixOf(BlockAt(k)) \o BlockAt(k).text
                        \o <<"\n">>])

C8_Witness ==
  /\ pc = "done"
  /\ Len(editorContent.blocks) = 2
  /\ BlockAt(1).type = "unordered-list-item" /\ BlockAt(1).depth = 2
  /\ BlockAt(2).type = "header-one" /\ BlockAt(2).depth = 2
  /\ result = Spaces(8) \o <<"-", " ", "x", "\n", "#", " ", "x", "\n">>

-----------------------------------------------------------------------------
(* C9 *)

\* the end of the entity range before the j-th, or 0
PrevEnd(entityRanges, j) ==
  IF j = 1 THEN 0 ELSE entityRanges[j - 1].offset + entityRanges[j - 1].length

FollowsGap(entityRanges, j) == entityRanges[j].offset > PrevEnd(entityRanges, j)

\* the sections as C9 lists them
SectionsStated(entityRanges, blockLength) ==
  Concat([j \in 1..Len(entityRanges) |->
            (IF FollowsGap(entityRanges, j)
               THEN <<[start |-> PrevEnd(entityRanges, j),
                       end |-> entityRanges[j].offset - 1]>>
               ELSE <<>>)
            \o <<[start |-> entityRanges[j].offset,
                  end |-> entityRanges[j].offset + entityRanges[j].length,
                  entityKey |-> entityRanges[j].key]>>])
  \o (IF PrevEnd(entityRanges, Len(entityRanges) + 1) < blockLength
        THEN <<[start |-> PrevEnd(entityRanges, Len(entityRanges) + 1),
                end |-> blockLength]>>
        ELSE <<>>)

\* the offsets of the text whose character is in the output: those of an
\* entity range that is no IMAGE, and those of no range but the one before an
\* entity range that follows a gap
Carried(block, entityMap) ==
  {i \in 0..(Len(block.text) - 1) :
     LET in == {j \in 1..Len(block.entityRanges) :
                  /\ block.entityRanges[j].offset <= i
                  /\ i < block.entityRanges[j].offset + block.entityRanges[j].length}
     IN IF in # {}
          THEN \A j \in in : entityMap[block.entityRanges[j].key].type # "IMAGE"
          ELSE \A j \in 1..Len(block.entityRanges) :
                 FollowsGap(block.entityRanges, j) => i # block.entityRanges[j].offset - 1}

Count(s, ch) == Cardinality({p \in 1..Len(s) : s[p] = ch})

\* C9: getEntitySections returns, per entity range, the entity-free section
\* [previous end, offset - 1) when the range follows a gap, then the range's
\* own section with its key, and after the last range the section up to the
\* block length; so the output holds the characters of the entity ranges and
\* not the character before an entity range that follows a gap
C9_EntitySections ==
  \A k \in Converted :
    LET block == BlockAt(k) IN
    /\ getEntitySections(block.entityRanges, Len(block.text))
         = SectionsStated(block.entityRanges, Len(block.text))
    /\ block.text # <<>> =>
         Count(markdown[k], "x")
           = Cardinality({i \in Carried(block, editorContent.entityMap) :
                            block.text[i + 1] = "x"})

C9_Witness ==
  /\ pc = "done"
  /\ BlockAt(1).text = <<"x", "x">>
  /\ BlockAt(1).entityRanges = <<[key |-> 0, offset |-> 1, length |-> 1]>>
  /\ result = <<"[", "x", "]", "(", "u", ")", "\n">>

====
